---- MODULE Spec2Model ----
(***************************************************************************)
(* Chroma DB viewer (src/chroma_db_viewer.py): the Streamlit script        *)
(* view_chroma_db with its two flows, Connect (parse the URL, create a     *)
(* client, list the collections, fetch and show each one) and Delete       *)
(* (parse the URL, create a client, delete every collection).              *)
(*                                                                         *)
(* One run of the script is modelled step by step: each remote call and    *)
(* each Streamlit output call is one step, so that the order of calls and  *)
(* of emitted elements is visible in the states.  The remote store is a    *)
(* set of named collections with their record sets; every remote call may  *)
(* fail (raise) or succeed, chosen by the environment at the call.         *)
(***************************************************************************)
EXTENDS Integers, Sequences, FiniteSets, TLC

\* ------------------------------------------------------------------ bounds
\* number of collection names the store may hold
MaxColl == 3
\* largest number of records of a collection
MaxRows == 2
\* number of button clicks (script runs) explored
MaxActions == 2

Names == 1..MaxColl

\* ------------------------------------------------------- strings as tuples
\* A string is a tuple of one-character strings.
Digits == {"0", "1", "2", "3", "4", "5", "6", "7", "8", "9"}
Letters == {"h", "t", "p", "a", "b", "x", "y", "H"}
\* urllib.parse.scheme_chars
SchemeChars == Letters \cup Digits \cup {"+", "-", "."}

DigitVal(c) ==
  CASE c = "0" -> 0 [] c = "1" -> 1 [] c = "2" -> 2 [] c = "3" -> 3
    [] c = "4" -> 4 [] c = "5" -> 5 [] c = "6" -> 6 [] c = "7" -> 7
    [] c = "8" -> 8 [] c = "9" -> 9

\* int(port): the decimal value of a tuple of digits
RECURSIVE StrToInt(_)
StrToInt(s) ==
  IF s = <<>> THEN 0
  ELSE 10 * StrToInt(SubSeq(s, 1, Len(s) - 1)) + DigitVal(s[Len(s)])

\* str.lower on the alphabet used
Lower(s) == [i \in 1..Len(s) |-> IF s[i] = "H" THEN "h" ELSE s[i]]

\* str.find over a set of characters, from position from: the first index
\* i >= from with s[i] in cs, or 0 when there is none
FindFrom(s, cs, from) ==
  LET hits == {i \in from..Len(s) : s[i] \in cs}
  IN IF hits = {} THEN 0 ELSE CHOOSE i \in hits : \A j \in hits : i <= j

\* the last index i with s[i] = c, or 0
RFind(s, c) ==
  LET hits == {i \in 1..Len(s) : s[i] = c}
  IN IF hits = {} THEN 0 ELSE CHOOSE i \in hits : \A j \in hits : i >= j

\* str.lstrip of spaces
RECURSIVE LStrip(_)
LStrip(s) == IF s # <<>> /\ s[1] = " " THEN LStrip(Tail(s)) ELSE s

Contains(s, c) == \E i \in 1..Len(s) : s[i] = c

\* ------------------------------------------------------------ urlparse
\* urlparse(database_url) as far as hostname and port need it: strip leading
\* spaces, split off a scheme (characters before the first ':' when they are
\* all scheme characters and start with a letter), then, when the rest starts
\* with "//", the netloc up to the first of "/?#".  A netloc with '[' and
\* no ']' (or the reverse) raises ValueError.
\* Result: [ok |-> FALSE] when urlparse raises, else [ok, scheme, netloc].
UrlParse(raw) ==
  LET url == LStrip(raw)
      i == FindFrom(url, {":"}, 1)
      hasScheme == /\ i > 1
                   /\ url[1] \in Letters
                   /\ \A k \in 1..(i - 1) : url[k] \in SchemeChars
      scheme == IF hasScheme THEN Lower(SubSeq(url, 1, i - 1)) ELSE <<>>
      rest == IF hasScheme THEN SubSeq(url, i + 1, Len(url)) ELSE url
      hasNetloc == Len(rest) >= 2 /\ rest[1] = "/" /\ rest[2] = "/"
      delim == FindFrom(rest, {"/", "?", "#"}, 3)
      netloc == IF ~hasNetloc THEN <<>>
                ELSE IF delim = 0 THEN SubSeq(rest, 3, Len(rest))
                ELSE SubSeq(rest, 3, delim - 1)
      badBracket == \/ (Contains(netloc, "[") /\ ~Contains(netloc, "]"))
                    \/ (Contains(netloc, "]") /\ ~Contains(netloc, "["))
  IN IF hasNetloc /\ badBracket
     THEN [ok |-> FALSE, scheme |-> <<>>, netloc |-> <<>>]
     ELSE [ok |-> TRUE, scheme |-> scheme, netloc |-> netloc]

\* ParseResult._hostinfo for a netloc without brackets: drop the userinfo up
\* to the last '@', then partition at the first ':'.
HostInfo(netloc) ==
  LET at == RFind(netloc, "@")
      hostinfo == SubSeq(netloc, at + 1, Len(netloc))
      c == FindFrom(hostinfo, {":"}, 1)
  IN IF c = 0 THEN [hostname |-> hostinfo, port |-> <<>>]
     ELSE [hostname |-> SubSeq(hostinfo, 1, c - 1),
           port |-> SubSeq(hostinfo, c + 1, Len(hostinfo))]

\* None, for a hostname (the empty tuple: an empty hostname is None) and for
\* a port
NoHost == <<>>
NoPort == 0 - 1

\* ParseResult.hostname: None when empty, else lower-cased
Hostname(parsed) == Lower(HostInfo(parsed.netloc).hostname)

\* ParseResult.port raises ValueError when the port text is not all digits
\* or its value is outside 0..65535
PortRaises(parsed) ==
  LET p == HostInfo(parsed.netloc).port
  IN /\ p # <<>>
     /\ \/ \E k \in 1..Len(p) : p[k] \notin Digits
        \/ StrToInt(p) > 65535

\* ParseResult.port: None when absent or empty, else its integer value
Port(parsed) ==
  LET p == HostInfo(parsed.netloc).port
  IN IF p = <<>> THEN NoPort ELSE StrToInt(p)

\* parse_database_url(db_url), .hostname and .port (lines 119-121, 131-133):
\* raised when either urlparse or the port property raises
Resolve(raw) ==
  LET parsed == UrlParse(raw)
  IN IF ~parsed.ok \/ PortRaises(parsed)
     THEN [raised |-> TRUE, host |-> NoHost, port |-> NoPort]
     ELSE [raised |-> FALSE, host |-> Hostname(parsed), port |-> Port(parsed)]

\* ---------------------------------------------------------- sample inputs
UrlEmpty == <<>>
UrlWords == <<"x", " ", "y">>
UrlNoPort == <<"h", "t", "t", "p", ":", "/", "/", "h">>
UrlEmptyPort == <<"h", "t", "t", "p", ":", "/", "/", "h", ":">>
UrlNoHost == <<"h", "t", "t", "p", ":", "/", "/", ":", "8", "0">>
UrlNoScheme == <<"h", ":", "8", "0">>
UrlPortZero == <<"h", "t", "t", "p", ":", "/", "/", "h", ":", "0">>
UrlPortAlpha == <<"h", "t", "t", "p", ":", "/", "/", "h", ":", "a", "b">>
UrlPortBig == <<"h", "t", "t", "p", ":", "/", "/", "h", ":", "9", "9", "9", "9", "9">>
UrlPortNeg == <<"h", "t", "t", "p", ":", "/", "/", "h", ":", "-", "1">>
UrlBracket == <<"h", "t", "t", "p", ":", "/", "/", "[", "h">>
UrlGood == <<"h", "t", "t", "p", ":", "/", "/", "h", ":", "8", "0">>
UrlGoodPath == <<" ", "/", "/", "a", "@", "H", ":", "9", "/", "x">>

Urls == {UrlEmpty, UrlWords, UrlNoPort, UrlEmptyPort, UrlNoHost, UrlNoScheme,
         UrlPortZero, UrlPortAlpha, UrlPortBig, UrlPortNeg, UrlBracket,
         UrlGood, UrlGoodPath}

\* the sample inputs, resolved
Resolved == [u \in Urls |-> Resolve(u)]

\* `if host and port` (lines 123, 135): a non-empty host and a port that is
\* neither None nor 0
HostAndPort(h, p) == h # NoHost /\ p # NoPort /\ p # 0

\* ------------------------------------------------------------ record sets
\* A cell value: a scalar or a key->value mapping (a Python dict).
Num(v) == [t |-> "num", v |-> v]
Dict(v) == [t |-> "dict", v |-> v]

\* a list of n scalars
Column(n, base) == [i \in 1..n |-> Num(base + i)]

\* what collection.get() returns: a mapping from keys to lists, here with
\* a, b, c and d entries under the four keys
Shape(a, b, c, d) ==
  [k \in {"ids", "embeddings", "metadatas", "documents"} |->
     CASE k = "ids" -> Column(a, 0)
       [] k = "embeddings" -> Column(b, 10)
       [] k = "metadatas" -> Column(c, 20)
       [] k = "documents" -> Column(d, 30)]

\* n index-aligned entries
Aligned(n) == Shape(n, n, n, n)

\* one embedding fewer than ids
ShortEmbeddings(n) == Shape(n, n - 1, n, n)

\* no "documents" key at all
NoDocuments(n) == [k \in {"ids", "embeddings", "metadatas"} |-> Aligned(n)[k]]

\* aligned, the metadata being dicts
DictMetadata(n) ==
  [Aligned(n) EXCEPT !["metadatas"] = [i \in 1..n |-> Dict(20 + i)]]

\* a collection that is not in the store has no records
NoData == Aligned(0)

\* the record sets a store with a single collection is tried with
AllRecordSets ==
  {Shape(a, b, c, d) : a \in 0..MaxRows, b \in 0..MaxRows, c \in 0..MaxRows,
                       d \in 0..MaxRows}
    \cup {NoDocuments(n) : n \in 0..MaxRows}
    \cup {DictMetadata(n) : n \in 1..MaxRows}

\* the record sets the collections of a larger store are tried with
SampleRecordSets ==
  {Aligned(0), Aligned(1), ShortEmbeddings(MaxRows), DictMetadata(MaxRows)}

\* dict.get(key, []) (lines 79-82)
Get(d, key) == IF key \in DOMAIN d THEN d[key] ELSE <<>>

\* --------------------------------------------------------- the presenter
Columns == <<"ids", "embeddings", "metadata", "documents">>

\* pd.DataFrame({...}) (lines 85-92) raises ValueError when the four lists
\* do not have the same length
FrameRaises(ids, embeddings, metadata, documents) ==
  ~(Len(ids) = Len(embeddings) /\ Len(ids) = Len(metadata)
      /\ Len(ids) = Len(documents))

\* faulty variant: the metadata and documents lists under each other's column
DataFrameSwapped(ids, embeddings, metadata, documents) ==
  [columns |-> Columns,
   rows |-> [i \in 1..Len(ids) |->
               [ids |-> ids[i], embeddings |-> embeddings[i],
                metadata |-> documents[i], documents |-> metadata[i]]]]

\* pd.DataFrame({...}) (lines 85-92): one row per index position
DataFrame(ids, embeddings, metadata, documents) ==
  [columns |-> Columns,
   rows |-> [i \in 1..Len(ids) |->
               [ids |-> ids[i], embeddings |-> embeddings[i],
                metadata |-> metadata[i], documents |-> documents[i]]]]

NoFrame == [columns |-> <<>>, rows |-> <<>>]

\* highlight_max(axis=0) is applied when the table is rendered: it compares
\* the values of each column, and comparing dicts raises TypeError
HighlightRaises(df) ==
  /\ Len(df.rows) >= 2
  /\ \E k \in 1..Len(df.columns) : \E i \in 1..Len(df.rows) :
       df.rows[i][df.columns[k]].t = "dict"

\* style_dataframe (lines 34-47): per column, the rows holding its maximum
HighlightMax(df) ==
  {e \in (1..Len(df.rows)) \X {df.columns[k] : k \in 1..Len(df.columns)} :
     \A j \in 1..Len(df.rows) : df.rows[j][e[2]].v <= df.rows[e[1]][e[2]].v}

\* ------------------------------------------------------ emitted elements
\* st.markdown(f"### Connecting to {host}:{port}") (line 124)
Connecting(h, p) ==
  [kind |-> "connecting", name |-> 0, host |-> h, port |-> p, cause |-> "",
   table |-> NoFrame, emph |-> {}]
\* st.markdown(f"### Collection: **{collection.name}**") (line 98)
Heading(c) ==
  [kind |-> "heading", name |-> c, host |-> <<>>, port |-> NoPort, cause |-> "",
   table |-> NoFrame, emph |-> {}]
\* st.dataframe(styled_df) (line 99)
Table(c, df) ==
  [kind |-> "table", name |-> c, host |-> <<>>, port |-> NoPort, cause |-> "",
   table |-> df, emph |-> HighlightMax(df)]
\* st.error(f"Error listing collections: {e}") (line 101), e the exception
ListingError(e) ==
  [kind |-> "error_listing", name |-> 0, host |-> <<>>, port |-> NoPort,
   cause |-> e, table |-> NoFrame, emph |-> {}]
\* st.error("Invalid URL. Please enter a valid database URL.") (128, 140)
InvalidUrlError ==
  [kind |-> "error_invalid_url", name |-> 0, host |-> <<>>, port |-> NoPort,
   cause |-> "", table |-> NoFrame, emph |-> {}]

IsError(e) == e.kind \in {"error_listing", "error_invalid_url"}

\* ------------------------------------------------------------- the state
VARIABLES
  store,      \* the remote store: the names of its collections
  records,    \* the remote store: the record set of each collection
  store0,     \* the store's collections when the current run started
  records0,   \* the store's record sets when the current run started
  actions,    \* number of script runs so far
  db_url,     \* the text input (line 114)
  button,     \* the button clicked: "connect", "delete" or "none"
  pc,         \* position of the run
  host,       \* parsed_url.hostname (lines 120, 132)
  port,       \* parsed_url.port (lines 121, 133)
  client,     \* the session the run created, 0 when none
  listed,     \* the collections list_collections returned
  idx,        \* position of the loop in listed
  data,       \* what collection.get() returned for the current collection
  df,         \* the DataFrame built for the current collection
  out,        \* the elements the run has put on the page, in order
  calls       \* the remote calls of the run, in order

vars == <<store, records, store0, records0, actions, db_url, button, pc, host,
          port, client, listed, idx, data, df, out, calls>>

remote == <<store, records>>
snapshot == <<store0, records0>>
input == <<db_url, button, actions>>
endpoint == <<host, port>>
loop == <<listed, idx, data, df>>

Call(op, c, session, ok) == [op |-> op, name |-> c, session |-> session, ok |-> ok]

\* the order list_collections returns the collections in: by name
RECURSIVE Ascending(_)
Ascending(S) ==
  IF S = {} THEN <<>>
  ELSE LET m == CHOOSE x \in S : \A y \in S : x <= y
       IN <<m>> \o Ascending(S \ {m})

\* faulty variant: one client kept and handed to every run
CachedSession(n) == 1

\* the session db.HttpClient(host, port) gives the n-th run (line 31): a new
\* one every time
NewSession(n) == n

\* faulty variant: the list walked from its end
CurrentReversed(lst, i) == lst[Len(lst) + 1 - i]

\* the loop variable of `for collection in collections` (lines 75, 137)
Current(lst, i) == lst[i]

\* faulty variant: the loop stops one element early
LoopDoneEarly(lst, i) == i >= Len(lst) - 1

\* the loop ends after the last element (lines 75, 137)
LoopDone(lst, i) == i >= Len(lst)

\* faulty variant: the delete loop run by both buttons
BodyDelete(btn) == "delete"

\* the body of the loop a run executes: fetch and show (lines 76-99), or
\* delete (line 138)
Body(btn) == IF btn = "connect" THEN "get" ELSE "delete"

\* where the run goes after the body of the loop
Advance ==
  /\ idx' = idx + 1
  /\ pc' = IF LoopDone(listed, idx) THEN "done" ELSE Body(button)

\* faulty variant: the exception swallowed without a message
ExceptSilent(e) ==
  /\ out' = out
  /\ pc' = "done"

\* the except clause of connect_and_list_collections (lines 100-101): an
\* error message, and the function returns
Except(e) ==
  /\ out' = Append(out, ListingError(e))
  /\ pc' = "done"

\* an exception nothing catches ends the run (lines 118-140 have no try)
Uncaught == pc' = "raised"

Init ==
  /\ store \in SUBSET Names
  /\ IF Cardinality(store) <= 1
     THEN \E rs \in AllRecordSets :
            records = [c \in Names |-> IF c \in store THEN rs ELSE NoData]
     ELSE /\ records \in [Names -> SampleRecordSets]
          /\ \A c \in Names \ store : records[c] = NoData
  /\ store0 = store
  /\ records0 = records
  /\ actions = 0
  /\ db_url = <<>>
  /\ button = "none"
  /\ pc = "idle"
  /\ host = NoHost
  /\ port = NoPort
  /\ client = 0
  /\ listed = <<>>
  /\ idx = 0
  /\ data = NoData
  /\ df = NoFrame
  /\ out = <<>>
  /\ calls = <<>>

\* One run of view_chroma_db up to the creation of the client (lines
\* 111-124, 130-135, 128, 140): the page is redrawn from nothing, the URL is
\* parsed and checked.
Run(url, btn) ==
  /\ pc \in {"idle", "done", "raised"}
  /\ actions < MaxActions
  /\ actions' = actions + 1
  /\ db_url' = url
  /\ button' = btn
  /\ store0' = store
  /\ records0' = records
  /\ client' = 0
  /\ listed' = <<>>
  /\ idx' = 0
  /\ data' = NoData
  /\ df' = NoFrame
  /\ calls' = <<>>
  /\ UNCHANGED remote
  /\ IF btn = "none" \/ url = <<>>
     THEN /\ pc' = "done"
          /\ out' = <<>>
          /\ host' = NoHost
          /\ port' = NoPort
     ELSE LET r == Resolved[url]
          IN IF r.raised
             THEN /\ Uncaught
                  /\ out' = <<>>
                  /\ host' = NoHost
                  /\ port' = NoPort
             ELSE /\ host' = r.host
                  /\ port' = r.port
                  /\ IF HostAndPort(r.host, r.port)
                     THEN /\ pc' = "create_client"
                          /\ out' = IF btn = "connect"
                                    THEN <<Connecting(r.host, r.port)>>
                                    ELSE <<>>
                     ELSE /\ pc' = "done"
                          /\ out' = <<InvalidUrlError>>

\* create_client(host, port) (lines 125, 136), outside any try
CreateClient ==
  /\ pc = "create_client"
  /\ \E ok \in BOOLEAN :
       /\ calls' = Append(calls, Call("create_client", 0, NewSession(actions), ok))
       /\ IF ok
          THEN /\ client' = NewSession(actions)
               /\ pc' = "list"
          ELSE /\ client' = client
               /\ Uncaught
  /\ UNCHANGED <<remote, snapshot, input, endpoint, loop, out>>

\* client.list_collections() (line 73 inside the try, line 137 outside any)
ListCollections ==
  /\ pc = "list"
  /\ \E ok \in BOOLEAN :
       /\ calls' = Append(calls, Call("list_collections", 0, client, ok))
       /\ IF ok
          THEN /\ listed' = Ascending(store)
               /\ idx' = 1
               /\ pc' = IF store = {} THEN "done" ELSE Body(button)
               /\ out' = out
          ELSE /\ UNCHANGED <<listed, idx>>
               /\ IF button = "connect" THEN Except("list_collections")
                  ELSE Uncaught /\ out' = out
  /\ UNCHANGED <<remote, snapshot, input, endpoint, client, data, df>>

\* data = collection.get() (line 76)
GetRecords ==
  /\ pc = "get"
  /\ \E ok \in BOOLEAN :
       /\ calls' = Append(calls, Call("get", Current(listed, idx), client, ok))
       /\ IF ok
          THEN /\ data' = records[Current(listed, idx)]
               /\ pc' = "frame"
               /\ out' = out
          ELSE /\ data' = data
               /\ Except("get")
  /\ UNCHANGED <<remote, snapshot, input, endpoint, client, listed, idx, df>>

\* lines 79-95: the four lists, the DataFrame and its (lazy) style
BuildFrame ==
  /\ pc = "frame"
  /\ LET ids == Get(data, "ids")
         embeddings == Get(data, "embeddings")
         metadata == Get(data, "metadatas")
         documents == Get(data, "documents")
     IN IF FrameRaises(ids, embeddings, metadata, documents)
        THEN /\ df' = df
             /\ Except("ValueError")
        ELSE /\ df' = DataFrame(ids, embeddings, metadata, documents)
             /\ pc' = "heading"
             /\ out' = out
  /\ UNCHANGED <<remote, snapshot, input, endpoint, client, listed, idx, data,
                 calls>>

\* st.markdown(f"### Collection: **{collection.name}**") (line 98)
EmitHeading ==
  /\ pc = "heading"
  /\ out' = Append(out, Heading(Current(listed, idx)))
  /\ pc' = "table"
  /\ UNCHANGED <<remote, snapshot, input, endpoint, client, loop, calls>>

\* st.dataframe(styled_df) (line 99), which computes the style, then the
\* next iteration
EmitTable ==
  /\ pc = "table"
  /\ IF HighlightRaises(df)
     THEN /\ Except("TypeError")
          /\ idx' = idx
     ELSE /\ out' = Append(out, Table(Current(listed, idx), df))
          /\ Advance
  /\ UNCHANGED <<remote, snapshot, input, endpoint, client, listed, data, df,
                 calls>>

\* client.delete_collection(collection.name) (line 138), outside any try
DeleteCollection ==
  /\ pc = "delete"
  /\ \E ok \in BOOLEAN :
       /\ calls' = Append(calls, Call("delete_collection", Current(listed, idx), client, ok))
       /\ IF ok
          THEN /\ store' = store \ {Current(listed, idx)}
               /\ records' = [records EXCEPT ![Current(listed, idx)] = NoData]
               /\ Advance
          ELSE /\ UNCHANGED <<remote, idx>>
               /\ Uncaught
  /\ UNCHANGED <<snapshot, input, endpoint, client, listed, data, df, out>>

Click == \E url \in Urls : \E btn \in {"connect", "delete", "none"} : Run(url, btn)

Next ==
  \/ Click
  \/ CreateClient
  \/ ListCollections
  \/ GetRecords
  \/ BuildFrame
  \/ EmitHeading
  \/ EmitTable
  \/ DeleteCollection

Spec == Init /\ [][Next]_vars

\* ------------------------------------------------------------ properties
FourKeys == {"ids", "embeddings", "metadatas", "documents"}

CallsOf(op) == {i \in DOMAIN calls : calls[i].op = op}
OkCall(op, c) ==
  \E i \in CallsOf(op) : calls[i].name = c /\ calls[i].ok
FailedCall(op, c) ==
  \E i \in CallsOf(op) : calls[i].name = c /\ ~calls[i].ok
LastCall == calls[Len(calls)]
Elements(k) == {i \in DOMAIN out : out[i].kind = k}
Errors == {i \in DOMAIN out : IsError(out[i])}
Finished == pc \in {"done", "raised"}
Pos(c) == CHOOSE k \in DOMAIN listed : listed[k] = c

\* the record set has n index-aligned entries under the four keys
WellFormed(rs, n) ==
  DOMAIN rs = FourKeys /\ \A k \in FourKeys : Len(rs[k]) = n

\* the table has the four columns and, for each of the n entries, the row
\* of that entry
IsTableOf(t, rs, n) ==
  /\ t.columns = <<"ids", "embeddings", "metadata", "documents">>
  /\ Len(t.rows) = n
  /\ \A i \in 1..n :
       /\ DOMAIN t.rows[i] = {"ids", "embeddings", "metadata", "documents"}
       /\ t.rows[i].ids = rs["ids"][i]
       /\ t.rows[i].embeddings = rs["embeddings"][i]
       /\ t.rows[i].metadata = rs["metadatas"][i]
       /\ t.rows[i].documents = rs["documents"][i]

\* neither the fetch of collection c nor its table fails
Healthy(c) ==
  LET rs == records[c]
      ids == Get(rs, "ids")
      embeddings == Get(rs, "embeddings")
      metadata == Get(rs, "metadatas")
      documents == Get(rs, "documents")
  IN /\ ~FailedCall("get", c)
     /\ ~FrameRaises(ids, embeddings, metadata, documents)
     /\ ~HighlightRaises(DataFrame(ids, embeddings, metadata, documents))

Shown(c) ==
  \E i \in Elements("table") :
    /\ out[i].name = c
    /\ i > 1
    /\ out[i - 1] = Heading(c)

\* the input is one the Connect and Delete flows take as an endpoint
ValidInput ==
  /\ button # "none"
  /\ db_url # <<>>
  /\ ~Resolved[db_url].raised
  /\ HostAndPort(Resolved[db_url].host, Resolved[db_url].port)

\* a host and a numeric port cannot both be extracted from the input
NotExtractable(url) ==
  \/ Resolved[url].raised
  \/ Resolved[url].host = NoHost
  \/ Resolved[url].port = NoPort

\* C1: per-collection fault isolation of the listing.  When a Connect run
\* that obtained the list of collections has ended, every collection whose
\* fetch and table did not fail has its heading and table on the page, and
\* there is one error message per failing collection.
C1_FaultIsolation ==
  (pc = "done" /\ button = "connect" /\ OkCall("list_collections", 0)) =>
    /\ \A k \in DOMAIN listed : Healthy(listed[k]) => Shown(listed[k])
    /\ Cardinality(Errors)
         = Cardinality({k \in DOMAIN listed : ~Healthy(listed[k])})

\* C2: for an input from which a host and a numeric port cannot both be
\* extracted, a Connect or Delete run ends with an error message on the page
\* and without any remote call.
C2_InvalidInputReported ==
  (Finished /\ button # "none" /\ NotExtractable(db_url)) =>
    (Errors # {} /\ calls = <<>>)

\* C3: resolving the endpoint never raises: no run ends by an exception
\* before its first remote call.
C3_ResolveNeverRaises == ~(pc = "raised" /\ calls = <<>>)

\* C4: every failure of a remote call is caught inside the run: a run with a
\* failed remote call does not end by an exception, and ends with at least
\* one error message on the page.
C4_FailuresContained ==
  (\E i \in DOMAIN calls : ~calls[i].ok) =>
    (pc # "raised" /\ (pc = "done" => Errors # {}))

\* C5: when list_collections fails in a Connect run, the run ends with
\* exactly one error message, the aggregate one, no collection heading, no
\* table and no fetch.
C5_ListFailureAggregate ==
  (button = "connect" /\ calls # <<>> /\ LastCall.op = "list_collections"
     /\ ~LastCall.ok) =>
    /\ pc = "done"
    /\ Cardinality(Errors) = 1
    /\ out[Len(out)] = ListingError("list_collections")
    /\ Elements("heading") = {}
    /\ Elements("table") = {}
    /\ CallsOf("get") = {}

C5_Witness ==
  /\ button = "connect"
  /\ calls # <<>>
  /\ LastCall.op = "list_collections"
  /\ ~LastCall.ok
  /\ Cardinality(store) >= 2

\* C6: deletion completeness.  When a Delete run with a valid endpoint that
\* obtained the list of collections has completed, the store holds no
\* collection: list_collections would return the empty sequence.
C6_DeletionComplete ==
  (button = "delete" /\ pc = "done" /\ OkCall("list_collections", 0)) =>
    Ascending(store) = <<>>

C6_Witness ==
  /\ button = "delete"
  /\ pc = "done"
  /\ Len(listed) >= 2
  /\ Cardinality(CallsOf("delete_collection")) = Len(listed)
  /\ store = {}

\* C7: for a record set with n index-aligned entries the table built has n
\* rows and the four columns, row i holding the i-th id, embedding, metadata
\* and document; building it never fails; and for n = 0 the empty table is
\* put on the page without an error.
C7_TableRows ==
  /\ \A n \in 0..MaxRows :
       (pc \in {"heading", "table"} /\ WellFormed(data, n)) =>
         IsTableOf(df, data, n)
  /\ \A i \in Elements("table") : \A n \in 0..MaxRows :
       WellFormed(records[out[i].name], n) =>
         IsTableOf(out[i].table, records[out[i].name], n)
  /\ \A n \in 0..MaxRows :
       (out # <<>> /\ out[Len(out)] = ListingError("ValueError")) =>
         ~WellFormed(data, n)
  /\ \A c \in Names :
       (button = "connect" /\ pc = "done" /\ OkCall("get", c)
          /\ WellFormed(records[c], 0)) =>
         \E i \in Elements("table") :
           out[i].name = c /\ out[i].table.rows = <<>>

C7_Witness ==
  /\ \E i \in Elements("table") : out[i].table.rows = <<>>
  /\ \E i \in Elements("table") : Len(out[i].table.rows) >= 1
  /\ pc = "done"

\* C8: single attempt, single session.  A run creates one client when its
\* endpoint is valid and none otherwise, calls list_collections at most
\* once, get and delete_collection at most once per listed collection, issues
\* no remote call after a failed one, and uses only the session it created.
C8_SingleAttempt ==
  /\ Cardinality(CallsOf("create_client"))
       = IF ValidInput /\ pc # "create_client" THEN 1 ELSE 0
  /\ ~ValidInput => calls = <<>>
  /\ Cardinality(CallsOf("list_collections")) <= 1
  /\ \A c \in Names : \A op \in {"get", "delete_collection"} :
       /\ Cardinality({i \in CallsOf(op) : calls[i].name = c}) <= 1
       /\ (\E i \in CallsOf(op) : calls[i].name = c) =>
            \E k \in DOMAIN listed : listed[k] = c
  /\ \A i \in DOMAIN calls : i < Len(calls) => calls[i].ok
  /\ \A i \in DOMAIN calls :
       /\ calls[i].session = actions
       /\ calls[i].op # "create_client" =>
            (client # 0 /\ calls[i].session = client)

C8_Witness ==
  /\ actions = 2
  /\ Len(calls) >= 4
  /\ ~LastCall.ok
  /\ LastCall.op \in {"get", "delete_collection"}

\* C9: a Connect run never calls delete_collection and leaves the store's
\* collections and records as they were; a Delete run never calls get and
\* puts no collection heading and no table on the page.
C9_FrameEffect ==
  /\ button = "connect" =>
       /\ CallsOf("delete_collection") = {}
       /\ store = store0
       /\ records = records0
  /\ button = "delete" =>
       /\ CallsOf("get") = {}
       /\ Elements("heading") = {}
       /\ Elements("table") = {}

C9_Witness ==
  /\ button = "connect"
  /\ pc = "done"
  /\ Cardinality(Elements("table")) >= 2
  /\ Cardinality(store) >= 2

====
